---- MODULE Spec2Model ----
(***************************************************************************)
(* HealthDashboard: the Daily Log upsert engine and its read queries       *)
(* (src/mcp_server.py).  Every request handler runs as its own coroutine;  *)
(* each awaited store statement is one atomic step (the connections are    *)
(* in autocommit mode: no handler opens a transaction), so handlers        *)
(* interleave between statements.                                          *)
(***************************************************************************)
EXTENDS Integers, Sequences, FiniteSets, TLC

\* ---------------------------------------------------------------- bounds
NReq == 2        \* requests in flight
MaxDay == 2      \* calendar dates 1..MaxDay
MaxVal == 2      \* payload numbers range over -1..MaxVal

\* ------------------------------------------------------------- constants
USER_ID == 1

\* None / SQL NULL, encoded as an integer outside every payload and column value
NULL == -(MaxVal + 2)
\* the empty string "" as the payload's date
EMPTY == NULL - 1
\* the four-letter string "None", which is what str(None) yields
NONE_STR == EMPTY - 1
\* generate_series(CURRENT_DATE - INTERVAL '29 days', CURRENT_DATE, '1 day')
WindowBack == 29
\* date_trunc('week', ...)
DaysPerWeek == 7

Requests == 1..NReq
Dates == 1..MaxDay
Numbers == (-1)..MaxVal
Payloads == Numbers \cup {NULL}
\* data.get("date"): absent, "", or a date string
DateInputs == Dates \cup {NULL, EMPTY}

LogOps == {"weight", "calorie", "cardio", "mood"}

VARIABLES
    today,                  \* CURRENT_DATE of the store
    daily_logs,             \* table daily_logs, in insertion order
    daily_calorie_entries,  \* table daily_calorie_entries, in insertion order
    op, val, date,          \* per request: route, payload metric, payload date
    pc,                     \* per request: position in its handler
    resolved,               \* per request: the log_date its upsert was run with
    log_id,                 \* per request: row["log_id"] of the upsert
    conn,                   \* per request: its pool connection: none, held, released
    resp,                   \* per request: HTTP status of the response
    result                  \* per request: JSON body of a query's response

\* the normalizer script (logs.py), a program of its own
VARIABLES
    df,                     \* the input table as read
    df_filtered,            \* its matching rows, with day_num and log_date
    out_data,               \* the output columns collected so far, in order
    remap_i,                \* position of the remap loop in header_to_field
    out_df,                 \* the output table
    output,                 \* the output file
    printed,                \* the messages, in order
    npc                     \* position in main()

normvars == <<df, df_filtered, out_data, remap_i, out_df, output, printed, npc>>

vars == <<today, daily_logs, daily_calorie_entries, op, val, date, pc, resolved,
          log_id, conn, resp, result, df, df_filtered, out_data, remap_i, out_df,
          output, printed, npc>>

\* ------------------------------------------------------------ SQL helpers
COALESCE(x, d) == IF x = NULL THEN d ELSE x

LogIds(dl) == 1..Len(dl)

\* rows of daily_logs matching (user_id, log_date): the unique index's key
RowsFor(dl, d) == {i \in LogIds(dl) : dl[i].user_id = USER_ID /\ dl[i].log_date = d}

NewLogZeroTotal(id, d) ==
    [log_id |-> id, user_id |-> USER_ID, log_date |-> d,
     weight_kg |-> NULL, mood |-> NULL, total_activity_min |-> 0]
NewLog(id, d) ==
    [log_id |-> id, user_id |-> USER_ID, log_date |-> d,
     weight_kg |-> NULL, mood |-> NULL, total_activity_min |-> NULL]

\* INSERT INTO daily_logs (user_id, log_date) VALUES ($1, d)
\* ON CONFLICT (user_id, log_date) DO UPDATE SET log_date=EXCLUDED.log_date
UpsertAlwaysInsert(dl, d) == Append(dl, NewLog(Len(dl) + 1, d))
UpsertResetsRow(dl, d) ==
    IF RowsFor(dl, d) = {}
    THEN Append(dl, NewLog(Len(dl) + 1, d))
    ELSE [i \in LogIds(dl) |-> IF i \in RowsFor(dl, d) THEN NewLog(i, d) ELSE dl[i]]
UpsertDailyLog(dl, d) ==
    IF RowsFor(dl, d) = {}
    THEN Append(dl, NewLog(Len(dl) + 1, d))
    ELSE [i \in LogIds(dl) |->
            IF i \in RowsFor(dl, d) THEN [dl[i] EXCEPT !.log_date = d] ELSE dl[i]]

\* ... RETURNING log_id
ReturningLogId(dl, d) == CHOOSE i \in LogIds(dl) : i \in RowsFor(dl, d)

\* UPDATE daily_logs SET weight_kg=$1 WHERE log_id=$2 AND user_id=$3
UpdateWeightIfUnset(dl, id, w) ==
    [i \in LogIds(dl) |->
        IF dl[i].log_id = id /\ dl[i].user_id = USER_ID /\ dl[i].weight_kg = NULL
        THEN [dl[i] EXCEPT !.weight_kg = w] ELSE dl[i]]
UpdateWeight(dl, id, w) ==
    [i \in LogIds(dl) |->
        IF dl[i].log_id = id /\ dl[i].user_id = USER_ID
        THEN [dl[i] EXCEPT !.weight_kg = w] ELSE dl[i]]

\* UPDATE daily_logs SET mood=$1 WHERE log_id=$2 AND user_id=$3
UpdateMoodOfToday(dl, id, m) ==
    [i \in LogIds(dl) |->
        IF dl[i].log_date = today /\ dl[i].user_id = USER_ID
        THEN [dl[i] EXCEPT !.mood = m] ELSE dl[i]]
UpdateMood(dl, id, m) ==
    [i \in LogIds(dl) |->
        IF dl[i].log_id = id /\ dl[i].user_id = USER_ID
        THEN [dl[i] EXCEPT !.mood = m] ELSE dl[i]]

\* UPDATE daily_logs SET total_activity_min = COALESCE(total_activity_min, 0) + $1
\* WHERE log_id=$2 AND user_id=$3
UpdateCardioOverwrite(dl, id, duration) ==
    [i \in LogIds(dl) |->
        IF dl[i].log_id = id /\ dl[i].user_id = USER_ID
        THEN [dl[i] EXCEPT !.total_activity_min = duration] ELSE dl[i]]
UpdateCardio(dl, id, duration) ==
    [i \in LogIds(dl) |->
        IF dl[i].log_id = id /\ dl[i].user_id = USER_ID
        THEN [dl[i] EXCEPT !.total_activity_min =
                            COALESCE(dl[i].total_activity_min, 0) + duration]
        ELSE dl[i]]

\* INSERT INTO daily_calorie_entries (log_id, calories, note) VALUES ($1, $2, ...)
InsertCalorieEntryPerLog(ce, id, calories) ==
    IF \E k \in 1..Len(ce) : ce[k].log_id = id
    THEN [k \in 1..Len(ce) |->
            IF ce[k].log_id = id THEN [ce[k] EXCEPT !.calories = calories] ELSE ce[k]]
    ELSE Append(ce, [entry_id |-> Len(ce) + 1, log_id |-> id, calories |-> calories])
InsertCalorieEntry(ce, id, calories) ==
    Append(ce, [entry_id |-> Len(ce) + 1, log_id |-> id, calories |-> calories])

\* SELECT COALESCE(SUM(e.calories),0) FROM daily_calorie_entries e
\* JOIN daily_logs dl ON e.log_id=dl.log_id
\* WHERE dl.user_id=$1 AND dl.log_date=CURRENT_DATE
RECURSIVE SumCalories(_, _)
SumCalories(ce, ks) ==
    IF ks = {} THEN NULL
    ELSE LET k == CHOOSE x \in ks : TRUE
             rest == SumCalories(ce, ks \ {k})
         IN  COALESCE(rest, 0) + ce[k].calories

JoinedEntries(ce, dl, d) ==
    {k \in 1..Len(ce) :
        \E i \in LogIds(dl) : /\ ce[k].log_id = dl[i].log_id
                              /\ dl[i].user_id = USER_ID
                              /\ dl[i].log_date = d}

SelectTodaysTotal(ce, dl, d) == COALESCE(SumCalories(ce, JoinedEntries(ce, dl, d)), 0)

\* ------------------------------------------------------------- validation
\* the handlers' guards on the payload metric
InvalidWeightNegativeOnly(v) == v = NULL \/ v < 0
InvalidWeight(v) == v = NULL \/ v <= 0
InvalidCalories(v) == v = NULL \/ v < 0
InvalidDurationAbsentOnly(v) == v = NULL
InvalidDuration(v) == v = NULL \/ v < 0
InvalidMood(v) == v = NULL

Invalid(o, v) ==
    CASE o = "weight"  -> InvalidWeight(v)
      [] o = "calorie" -> InvalidCalories(v)
      [] o = "cardio"  -> InvalidDuration(v)
      [] o = "mood"    -> InvalidMood(v)

\* "if date_str:" ... VALUES ($1, $2) / VALUES ($1, CURRENT_DATE)
ResolveDate(d) == IF d \notin {NULL, EMPTY} THEN d ELSE today

NoResult == [date |-> NULL, total_calories |-> NULL]

\* ---------------------------------------------------------- read queries
\* view v_bmi: one row per Daily Log that has a weight (the body mass index
\* is carried as the weight; the height is no part of the source)
V_bmi(dl) ==
    {[user_id |-> dl[i].user_id, log_date |-> dl[i].log_date, bmi |-> dl[i].weight_kg] :
        i \in {j \in LogIds(dl) : dl[j].weight_kg # NULL}}

\* generate_series(CURRENT_DATE - INTERVAL '29 days', CURRENT_DATE, '1 day')
GenerateSeries(t) == [k \in 1..(WindowBack + 1) |-> t - WindowBack + (k - 1)]

RECURSIVE RowsOfSet(_)
RowsOfSet(rows) ==
    IF rows = {} THEN <<>>
    ELSE LET x == CHOOSE y \in rows : TRUE IN <<x>> \o RowsOfSet(rows \ {x})

\* ... AS d(dt) LEFT JOIN v_bmi AS b ON b.log_date = d.dt AND b.user_id = $1
\* ORDER BY d.dt
InnerJoinRows(dt, vb) ==
    LET matches == {b \in vb : b.log_date = dt /\ b.user_id = USER_ID}
    IN  [k \in 1..Cardinality(matches) |->
            [log_date |-> dt, value |-> RowsOfSet(matches)[k].bmi]]
\* the rows one date of the series contributes: its matches, or one row of
\* nulls when it has none
LeftJoinRows(dt, vb) ==
    LET matches == {b \in vb : b.log_date = dt /\ b.user_id = USER_ID}
    IN  IF matches = {}
        THEN <<[log_date |-> dt, value |-> NULL]>>
        ELSE [k \in 1..Cardinality(matches) |->
                [log_date |-> dt, value |-> RowsOfSet(matches)[k].bmi]]

RECURSIVE LeftJoinBmi(_, _)
LeftJoinBmi(series, vb) ==
    IF series = <<>> THEN <<>>
    ELSE LeftJoinRows(Head(series), vb) \o LeftJoinBmi(Tail(series), vb)

\* result = [{"date": row["log_date"].isoformat(), "bmi": row["value"]} ...]
BmiResult(rows) == [k \in 1..Len(rows) |-> [date |-> rows[k].log_date, bmi |-> rows[k].value]]

\* view v_daily_summary: one row per Daily Log, with its metrics
V_daily_summary(dl) ==
    {[user_id |-> dl[i].user_id, log_date |-> dl[i].log_date,
      weight_kg |-> dl[i].weight_kg, mood |-> dl[i].mood,
      total_activity_min |-> dl[i].total_activity_min] : i \in LogIds(dl)}

\* SELECT weight_kg, ..., total_activity_min, ... [, CURRENT_DATE as log_date]
\* FROM v_daily_summary WHERE user_id=$1 AND log_date=d
\* fetchrow: the first row, as a sequence of at most one row (<<>> is None);
\* row.get("log_date") is None unless the column is selected
SelectDailySummary(dl, d, with_date) ==
    LET rows == {v \in V_daily_summary(dl) : v.user_id = USER_ID /\ v.log_date = d}
    IN  IF rows = {} THEN <<>>
        ELSE LET v == CHOOSE x \in rows : TRUE
             IN  <<[weight_kg |-> v.weight_kg, mood |-> v.mood,
                    total_activity_min |-> v.total_activity_min,
                    log_date |-> IF with_date THEN today ELSE NULL]>>

\* isinstance(x, (str, bytes)): a date column is decoded to a date object (or
\* is None), never to a string
IsStr(x) == FALSE
\* str(x) of None or of a date object
Str(x) == IF x = NULL THEN NONE_STR ELSE x
\* Python's "a or b"
Or(a, b) == IF a \in {NULL, EMPTY} THEN b ELSE a

\* the body of the daily summary: found row, or only the echoed parameter
SummaryResult(date_str, log_date, row) ==
    IF row # <<>>
    THEN [log_date |-> IF IsStr(row[1].log_date) THEN Or(log_date, row[1].log_date)
                       ELSE Str(row[1].log_date),
          weight_kg |-> row[1].weight_kg, mood |-> row[1].mood,
          total_activity_min |-> row[1].total_activity_min]
    ELSE [log_date |-> Or(date_str, NULL)]

\* SELECT date_trunc('week', d): weeks of seven days, date 1 taken as a Monday
WeekStart(d) == d - ((d - 1) % DaysPerWeek)

\* view v_weekly_stats: one row per week that holds a Daily Log
V_weekly_stats(dl) ==
    {[user_id |-> dl[i].user_id, week_start |-> WeekStart(dl[i].log_date)] :
        i \in LogIds(dl)}

\* SELECT ... FROM v_weekly_stats WHERE user_id=$1 AND week_start=$2
SelectWeeklyStats(dl, ws) ==
    \E w \in V_weekly_stats(dl) : w.user_id = USER_ID /\ w.week_start = ws

\* SELECT e.entry_id, e.calories ... JOIN daily_logs l ... WHERE l.log_date=
\* CURRENT_DATE ORDER BY e.created_at
RECURSIVE SelectFood(_, _, _)
SelectFood(ce, dl, d) ==
    IF ce = <<>> THEN <<>>
    ELSE LET e == ce[Len(ce)]
             rest == SelectFood(SubSeq(ce, 1, Len(ce) - 1), dl, d)
         IN  IF \E i \in LogIds(dl) : /\ dl[i].log_id = e.log_id
                                       /\ dl[i].user_id = USER_ID
                                       /\ dl[i].log_date = d
             THEN Append(rest, [id |-> e.entry_id, calories |-> e.calories])
             ELSE rest


\* ------------------------------------------------- the normalizer: logs.py
\* rows of the input table, at most
MaxRows == 3

\* start_date = dt.date(2025, 4, 8), as <<year, month, day>>
start_date == <<2025, 4, 8>>

\* header_to_field, in insertion order: <<source column, canonical field>>
header_to_field_swapped ==
    << <<"Budgeted kcal", "kcal_budgeted_txt">>,
       <<"Weight", "weight_kg_txt">>,
       <<"Estimated kcal", "kcal_estimated_txt">>,
       <<"Exercise", "exercise_txt">>,
       <<"Fasted Cardio", "fasted_cardio_txt">>,
       <<"Mood/Energy", "mood_txt">>,
       <<"Notes", "notes">> >>
header_to_field ==
    << <<"Weight", "weight_kg_txt">>,
       <<"Budgeted kcal", "kcal_budgeted_txt">>,
       <<"Estimated kcal", "kcal_estimated_txt">>,
       <<"Exercise", "exercise_txt">>,
       <<"Fasted Cardio", "fasted_cardio_txt">>,
       <<"Mood/Energy", "mood_txt">>,
       <<"Notes", "notes">> >>

MappedHeaders == {header_to_field[k][1] : k \in 1..Len(header_to_field)}

\* a cell without a value, as read_csv yields it
NaN == <<"NaN">>

\* Day labels of the input, as character sequences
LabelDay1 == <<"D", "a", "y", " ", "1">>
LabelLower24 == <<"d", "a", "y", " ", " ", "2", "4">>
LabelUpperTab01 == <<"D", "A", "Y", "\t", "0", "1">>
LabelNoSpace == <<"D", "a", "y", "3">>
LabelHoliday ==
    <<"H", "o", "l", "i", "d", "a", "y", " ", "1", "0", "5", "8", " ",
      "D", "a", "y", " ", "2">>
Labels == {LabelDay1, LabelLower24, LabelUpperTab01, LabelNoSpace, LabelHoliday, NaN}

\* the input tables: which columns there are (one at least, or read_csv
\* raises), how many rows, the Day labels; a cell of a mapped column stands
\* for itself: <<row, column>>
Tables ==
    {[columns |-> cs \cup {"Day"}, nrows |-> Len(ls), Day |-> ls] :
        cs \in SUBSET MappedHeaders,
        ls \in UNION {[1..n -> Labels] : n \in 0..MaxRows}}
    \cup
    {[columns |-> cs, nrows |-> n, Day |-> [i \in 1..n |-> NaN]] :
        cs \in (SUBSET MappedHeaders) \ {{}}, n \in 0..MaxRows}

Cell(t, i, h) == IF h = "Day" THEN t.Day[i] ELSE <<i, h>>

NoTable == [columns |-> {}, nrows |-> 0, Day |-> <<>>]
NoRows == [index |-> <<>>, day_num |-> <<>>, log_date |-> <<>>]
EmptyFrame == [columns |-> <<>>, rows |-> <<>>]
NoFile == [written |-> FALSE, columns |-> <<>>, rows |-> <<>>]

\* day_re = re.compile(r"Day\s+(\d+)", re.I)
Lower(c) == CASE c = "D" -> "d" [] c = "A" -> "a" [] c = "Y" -> "y" [] OTHER -> c
IsSpace(c) == c \in {" ", "\t"}
IsDigit(c) == c \in {"0", "1", "2", "3", "4", "5", "6", "7", "8", "9"}
DigitVal(c) ==
    CASE c = "0" -> 0 [] c = "1" -> 1 [] c = "2" -> 2 [] c = "3" -> 3 [] c = "4" -> 4
      [] c = "5" -> 5 [] c = "6" -> 6 [] c = "7" -> 7 [] c = "8" -> 8 [] c = "9" -> 9

\* \s+ and \d+ from position p on: the first position that is no longer one
RECURSIVE SpacesEnd(_, _)
SpacesEnd(s, p) ==
    IF p <= Len(s) /\ IsSpace(s[p]) THEN SpacesEnd(s, p + 1) ELSE p
RECURSIVE DigitsEnd(_, _)
DigitsEnd(s, p) ==
    IF p <= Len(s) /\ IsDigit(s[p]) THEN DigitsEnd(s, p + 1) ELSE p

\* the pattern matched at position p: its group (the digits), <<>> when not
MatchAt(s, p) ==
    IF /\ p + 2 <= Len(s)
       /\ Lower(s[p]) = "d" /\ Lower(s[p + 1]) = "a" /\ Lower(s[p + 2]) = "y"
    THEN LET e == SpacesEnd(s, p + 3)
             f == DigitsEnd(s, e)
         IN  IF e > p + 3 /\ f > e THEN SubSeq(s, e, f - 1) ELSE <<>>
    ELSE <<>>

\* re.search: the leftmost match from position p on
RECURSIVE Search(_, _)
Search(s, p) ==
    IF p > Len(s) THEN <<>>
    ELSE IF MatchAt(s, p) # <<>> THEN MatchAt(s, p)
    ELSE Search(s, p + 1)

\* .astype(str)
AsStr(cell) == IF cell = NaN THEN <<"n", "a", "n">> ELSE cell
\* .astype(str).str.contains(day_re, na=False)
Contains(cell) == Search(AsStr(cell), 1) # <<>>
\* .str.extract(day_re, expand=False)
Extract(cell) == Search(cell, 1)
\* .astype(int)
RECURSIVE AsInt(_)
AsInt(digits) ==
    IF digits = <<>> THEN 0
    ELSE AsInt(SubSeq(digits, 1, Len(digits) - 1)) * 10 + DigitVal(digits[Len(digits)])

\* "Day" not in df.columns
DayColumnAlwaysThere(t) == TRUE
DayColumnPresent(t) == "Day" \in t.columns

\* df[...contains...]: the index of the rows kept, in the table's order
FilterRowsOncePerDay(t) ==
    SelectSeq([i \in 1..t.nrows |-> i],
              LAMBDA i : /\ Contains(t.Day[i])
                         /\ \A j \in 1..(i - 1) :
                               Contains(t.Day[j]) =>
                                   AsInt(Extract(t.Day[j])) # AsInt(Extract(t.Day[i])))
FilterRows(t) ==
    SelectSeq([i \in 1..t.nrows |-> i], LAMBDA i : Contains(t.Day[i]))

\* the calendar of pd.to_datetime(...) + pd.to_timedelta(..., unit="d")
IsLeap(y) == (y % 4 = 0 /\ y % 100 # 0) \/ y % 400 = 0
DaysInMonth(y, m) ==
    IF m = 2 THEN (IF IsLeap(y) THEN 29 ELSE 28)
    ELSE IF m \in {4, 6, 9, 11} THEN 30 ELSE 31
\* d plus n days, n >= 0
RECURSIVE AddDays(_, _)
AddDays(d, n) ==
    IF d[3] + n <= DaysInMonth(d[1], d[2]) THEN <<d[1], d[2], d[3] + n>>
    ELSE LET rest == n - (DaysInMonth(d[1], d[2]) - d[3] + 1)
         IN  IF d[2] = 12 THEN AddDays(<<d[1] + 1, 1, 1>>, rest)
             ELSE AddDays(<<d[1], d[2] + 1, 1>>, rest)

\* pd.to_datetime(start_date) + pd.to_timedelta(day_num - 1, unit="d")
LogDateFromZero(n) == AddDays(start_date, n)
LogDate(n) == AddDays(start_date, n - 1)

\* pd.DataFrame(out_data): the columns in the dict's order, one row per index
DataFrame(od, n) ==
    [columns |-> [c \in 1..Len(od) |-> od[c].name],
     rows |-> [k \in 1..n |-> [c \in 1..Len(od) |-> od[c].values[k]]]]

\* cols = ["log_date"] + [col for col in out_df.columns if col != "log_date"];
\* out_df[cols]
ColumnAt(f, name) == CHOOSE c \in 1..Len(f.columns) : f.columns[c] = name
Reorder(f) ==
    LET cols == <<"log_date">> \o SelectSeq(f.columns, LAMBDA c : c # "log_date")
    IN  [columns |-> cols,
         rows |-> [k \in 1..Len(f.rows) |->
                     [c \in 1..Len(cols) |-> f.rows[k][ColumnAt(f, cols[c])]]]]

\* out_df.empty
IsEmpty(f) == Len(f.columns) = 0 \/ Len(f.rows) = 0

\* a printed message
Msg(kind, col, field) == [kind |-> kind, col |-> col, field |-> field]

\* ------------------------------------------------------------------- Init
ServerInit ==
    /\ today = 1
    /\ daily_logs = <<>>
    /\ daily_calorie_entries = <<>>
    /\ op = [r \in Requests |-> "none"]
    /\ val = [r \in Requests |-> NULL]
    /\ date = [r \in Requests |-> NULL]
    /\ pc = [r \in Requests |-> "idle"]
    /\ resolved = [r \in Requests |-> NULL]
    /\ log_id = [r \in Requests |-> NULL]
    /\ conn = [r \in Requests |-> "none"]
    /\ resp = [r \in Requests |-> "none"]
    /\ result = [r \in Requests |-> NoResult]

\* the server starts with the tables empty; the script is not run
Init ==
    /\ ServerInit
    /\ df = NoTable
    /\ df_filtered = NoRows
    /\ out_data = <<>>
    /\ remap_i = 0
    /\ out_df = EmptyFrame
    /\ output = NoFile
    /\ printed = <<>>
    /\ npc = "off"

\* ---------------------------------------------------------------- actions
\* the store's clock passes midnight
Midnight ==
    /\ today < MaxDay
    /\ today' = today + 1
    /\ UNCHANGED <<normvars, conn, daily_logs, daily_calorie_entries, op, val, date, pc, resolved, log_id,
                   resp, result>>

\* a logging handler returns success=false, status 400, on an invalid payload
RejectAfterWrite(r, o, v) ==
    /\ op' = [op EXCEPT ![r] = o]
    /\ val' = [val EXCEPT ![r] = v]
    /\ pc' = [pc EXCEPT ![r] = "done"]
    /\ resp' = [resp EXCEPT ![r] = "400"]
    /\ daily_logs' = UpsertDailyLog(daily_logs, today)
    /\ UNCHANGED <<normvars, conn, today, daily_calorie_entries, date, resolved, log_id, result>>
Reject(r, o, v) ==
    /\ op' = [op EXCEPT ![r] = o]
    /\ val' = [val EXCEPT ![r] = v]
    /\ pc' = [pc EXCEPT ![r] = "done"]
    /\ resp' = [resp EXCEPT ![r] = "400"]
    /\ UNCHANGED <<normvars, conn, today, daily_logs, daily_calorie_entries, date, resolved, log_id, result>>

\* a logging handler reads its payload, validates it, reads the date and
\* acquires a connection
Receive(r) ==
    /\ pc[r] = "idle"
    /\ \E o \in LogOps, v \in Payloads :
          IF Invalid(o, v)
          THEN Reject(r, o, v)
          ELSE \E d \in DateInputs :
                  /\ op' = [op EXCEPT ![r] = o]
                  /\ val' = [val EXCEPT ![r] = v]
                  /\ date' = [date EXCEPT ![r] = d]
                  /\ pc' = [pc EXCEPT ![r] = "upsert"]
                  /\ conn' = [conn EXCEPT ![r] = "held"]
                  /\ UNCHANGED <<normvars, today, daily_logs, daily_calorie_entries, resolved, log_id,
                                 resp, result>>

\* first statement of a logging handler: create or match the Daily Log
Upsert(r) ==
    /\ pc[r] = "upsert"
    /\ daily_logs' = UpsertDailyLog(daily_logs, ResolveDate(date[r]))
    /\ resolved' = [resolved EXCEPT ![r] = ResolveDate(date[r])]
    /\ log_id' = [log_id EXCEPT ![r] = ReturningLogId(daily_logs', ResolveDate(date[r]))]
    /\ pc' = [pc EXCEPT ![r] = "metric"]
    /\ UNCHANGED <<normvars, conn, today, daily_calorie_entries, op, val, date, resp, result>>

\* second statement of a logging handler: the metric write
MetricStatement(r) ==
    CASE op[r] = "weight" ->
            /\ daily_logs' = UpdateWeight(daily_logs, log_id[r], val[r])
            /\ UNCHANGED daily_calorie_entries
      [] op[r] = "mood" ->
            /\ daily_logs' = UpdateMood(daily_logs, log_id[r], val[r])
            /\ UNCHANGED daily_calorie_entries
      [] op[r] = "cardio" ->
            /\ daily_logs' = UpdateCardio(daily_logs, log_id[r], val[r])
            /\ UNCHANGED daily_calorie_entries
      [] op[r] = "calorie" ->
            /\ daily_calorie_entries' =
                  InsertCalorieEntry(daily_calorie_entries, log_id[r], val[r])
            /\ UNCHANGED daily_logs

Metric(r) ==
    /\ pc[r] = "metric"
    /\ MetricStatement(r)
    /\ pc' = [pc EXCEPT ![r] = "release"]
    /\ UNCHANGED <<normvars, conn, today, op, val, date, resolved, log_id, resp, result>>

\* the connection goes back to the pool and the handler answers success=true
Respond(r) ==
    /\ pc[r] = "release"
    /\ pc' = [pc EXCEPT ![r] = "done"]
    /\ conn' = [conn EXCEPT ![r] = "released"]
    /\ resp' = [resp EXCEPT ![r] = "200"]
    /\ UNCHANGED <<normvars, today, daily_logs, daily_calorie_entries, op, val, date, resolved, log_id,
                   result>>

\* the persistence layer fails a statement: the exception leaves the handler,
\* the connection is released and the transport answers 500
StorageFailure(r) ==
    /\ pc[r] \in {"upsert", "metric", "query", "query2"}
    /\ pc' = [pc EXCEPT ![r] = "done"]
    /\ conn' = [conn EXCEPT ![r] = "released"]
    /\ resp' = [resp EXCEPT ![r] = "500"]
    /\ UNCHANGED <<normvars, today, daily_logs, daily_calorie_entries, op, val, date, resolved, log_id,
                   result>>

\* GET /api/calories/today: acquire a connection
ReceiveCaloriesToday(r) ==
    /\ pc[r] = "idle"
    /\ op' = [op EXCEPT ![r] = "calories_today"]
    /\ pc' = [pc EXCEPT ![r] = "query"]
    /\ conn' = [conn EXCEPT ![r] = "held"]
    /\ UNCHANGED <<normvars, today, daily_logs, daily_calorie_entries, val, date, resolved, log_id,
                   resp, result>>

\* the SUM query inside the "async with" block; the block then releases the
\* connection
CaloriesTodayQuery(r) ==
    /\ pc[r] = "query"
    /\ op[r] = "calories_today"
    /\ result' = [result EXCEPT ![r].total_calories =
                     SelectTodaysTotal(daily_calorie_entries, daily_logs, today)]
    /\ pc' = [pc EXCEPT ![r] = "released"]
    /\ conn' = [conn EXCEPT ![r] = "released"]
    /\ UNCHANGED <<normvars, today, daily_logs, daily_calorie_entries, op, val, date, resolved, log_id,
                   resp>>

\* conn.fetchval("SELECT CURRENT_DATE") after the block, on the released
\* connection: the driver either refuses the call or still runs it
CaloriesTodayDate(r) ==
    /\ pc[r] = "released"
    /\ pc' = [pc EXCEPT ![r] = "done"]
    /\ \/ /\ resp' = [resp EXCEPT ![r] = "500"]
          /\ result' = [result EXCEPT ![r] = NoResult]
       \/ /\ resp' = [resp EXCEPT ![r] = "200"]
          /\ result' = [result EXCEPT ![r].date = today]
    /\ UNCHANGED <<normvars, conn, today, daily_logs, daily_calorie_entries, op, val, date, resolved, log_id>>

\* a read handler (bmi, daily summary, weekly summary, food) takes its
\* query parameter and acquires a connection
QueryOps == {"bmi", "summary_daily", "summary_weekly", "food"}

ReceiveQuery(r) ==
    /\ pc[r] = "idle"
    /\ \E o \in QueryOps :
          /\ op' = [op EXCEPT ![r] = o]
          /\ \E d \in (IF o \in {"summary_daily", "summary_weekly"}
                        THEN DateInputs ELSE {NULL}) :
                date' = [date EXCEPT ![r] = d]
    /\ pc' = [pc EXCEPT ![r] = "query"]
    /\ conn' = [conn EXCEPT ![r] = "held"]
    /\ UNCHANGED <<normvars, today, daily_logs, daily_calorie_entries, val, resolved, log_id,
                   resp, result>>

\* GET /api/bmi: the trend query, then the response
BmiQuery(r) ==
    /\ pc[r] = "query"
    /\ op[r] = "bmi"
    /\ result' = [result EXCEPT ![r] =
                     BmiResult(LeftJoinBmi(GenerateSeries(today), V_bmi(daily_logs)))]
    /\ pc' = [pc EXCEPT ![r] = "done"]
    /\ conn' = [conn EXCEPT ![r] = "released"]
    /\ resp' = [resp EXCEPT ![r] = "200"]
    /\ UNCHANGED <<normvars, today, daily_logs, daily_calorie_entries, op, val, date, resolved,
                   log_id>>

\* GET /api/summary/daily: the summary query, then the response
SummaryDailyQuery(r) ==
    /\ pc[r] = "query"
    /\ op[r] = "summary_daily"
    /\ LET query_date == Or(date[r], NULL)
           row == IF query_date # NULL
                  THEN SelectDailySummary(daily_logs, query_date, FALSE)
                  ELSE SelectDailySummary(daily_logs, today, TRUE)
       IN  result' = [result EXCEPT ![r] = SummaryResult(date[r], query_date, row)]
    /\ pc' = [pc EXCEPT ![r] = "done"]
    /\ conn' = [conn EXCEPT ![r] = "released"]
    /\ resp' = [resp EXCEPT ![r] = "200"]
    /\ UNCHANGED <<normvars, today, daily_logs, daily_calorie_entries, op, val, date, resolved,
                   log_id>>

\* GET /api/summary/weekly, first statement: date_trunc of the given date or
\* of CURRENT_DATE
WeeklyTrunc(r) ==
    /\ pc[r] = "query"
    /\ op[r] = "summary_weekly"
    /\ result' = [result EXCEPT ![r] =
                     [week_start |-> WeekStart(ResolveDate(date[r])), found |-> FALSE]]
    /\ pc' = [pc EXCEPT ![r] = "query2"]
    /\ UNCHANGED <<normvars, today, daily_logs, daily_calorie_entries, op, val, date, resolved,
                   log_id, conn, resp>>

\* GET /api/summary/weekly, second statement: the week's row, then the response
WeeklySelect(r) ==
    /\ pc[r] = "query2"
    /\ result' = [result EXCEPT ![r].found =
                     SelectWeeklyStats(daily_logs, result[r].week_start)]
    /\ pc' = [pc EXCEPT ![r] = "done"]
    /\ conn' = [conn EXCEPT ![r] = "released"]
    /\ resp' = [resp EXCEPT ![r] = "200"]
    /\ UNCHANGED <<normvars, today, daily_logs, daily_calorie_entries, op, val, date, resolved,
                   log_id>>

\* GET /api/food: today's entries, then the response
FoodQuery(r) ==
    /\ pc[r] = "query"
    /\ op[r] = "food"
    /\ result' = [result EXCEPT ![r] =
                     SelectFood(daily_calorie_entries, daily_logs, today)]
    /\ pc' = [pc EXCEPT ![r] = "done"]
    /\ conn' = [conn EXCEPT ![r] = "released"]
    /\ resp' = [resp EXCEPT ![r] = "200"]
    /\ UNCHANGED <<normvars, today, daily_logs, daily_calorie_entries, op, val, date, resolved,
                   log_id>>

Next ==
    \/ Midnight
    \/ \E r \in Requests :
          \/ Receive(r)
          \/ Upsert(r)
          \/ Metric(r)
          \/ Respond(r)
          \/ StorageFailure(r)
          \/ ReceiveCaloriesToday(r)
          \/ CaloriesTodayQuery(r)
          \/ CaloriesTodayDate(r)
          \/ ReceiveQuery(r)
          \/ BmiQuery(r)
          \/ SummaryDailyQuery(r)
          \/ WeeklyTrunc(r)
          \/ WeeklySelect(r)
          \/ FoodQuery(r)

Spec == Init /\ [][Next]_vars

\* ------------------------------------------------ the normalizer's steps
servervars == <<today, daily_logs, daily_calorie_entries, op, val, date, pc, resolved,
                log_id, conn, resp, result>>

\* df = pd.read_csv(input_path): the table the input file holds
ReadCsv ==
    /\ npc = "start"
    /\ df' \in Tables
    /\ npc' = "read"
    /\ UNCHANGED <<servervars, df_filtered, out_data, remap_i, out_df, output, printed>>

\* the input file is missing or cannot be read: a message, no output
ReadError ==
    /\ npc = "start"
    /\ printed' = Append(printed, Msg("read_error", "", ""))
    /\ npc' = "end"
    /\ UNCHANGED <<servervars, df, df_filtered, out_data, remap_i, out_df, output>>

\* the table has no Day column: the error, and an empty output table
DayColumnMissing ==
    /\ npc = "read"
    /\ ~DayColumnPresent(df)
    /\ printed' = Append(printed, Msg("error_no_day_column", "Day", ""))
    /\ out_df' = EmptyFrame
    /\ npc' = "write"
    /\ UNCHANGED <<servervars, df, df_filtered, out_data, remap_i, output>>

\* the rows whose Day label contains the pattern; when there is none, the
\* warning and an empty output table
Filter ==
    /\ npc = "read"
    /\ DayColumnPresent(df)
    /\ df_filtered' = [df_filtered EXCEPT !.index = FilterRows(df)]
    /\ IF FilterRows(df) = <<>>
       THEN /\ printed' = Append(printed, Msg("warning_no_rows_matched", "Day", ""))
            /\ out_df' = EmptyFrame
            /\ npc' = "write"
       ELSE /\ npc' = "extract"
            /\ UNCHANGED <<printed, out_df>>
    /\ UNCHANGED <<servervars, df, out_data, remap_i, output>>

\* day_num and log_date of the rows kept; out_data starts with log_date
ExtractDay ==
    /\ npc = "extract"
    /\ LET n == Len(df_filtered.index)
           day_num == [k \in 1..n |-> AsInt(Extract(Cell(df, df_filtered.index[k], "Day")))]
           log_date == [k \in 1..n |-> LogDate(day_num[k])]
       IN  /\ df_filtered' = [df_filtered EXCEPT !.day_num = day_num,
                                                  !.log_date = log_date]
           /\ out_data' = <<[name |-> "log_date", values |-> log_date]>>
    /\ remap_i' = 1
    /\ npc' = "remap"
    /\ UNCHANGED <<servervars, df, out_df, output, printed>>

\* one turn of the loop over header_to_field: the column is taken over under
\* its canonical name, or a note says that it is skipped
Remap ==
    /\ npc = "remap"
    /\ remap_i <= Len(header_to_field)
    /\ LET old_col == header_to_field[remap_i][1]
           new_col_name == header_to_field[remap_i][2]
       IN  IF old_col \in df.columns
           THEN /\ out_data' = Append(out_data,
                       [name |-> new_col_name,
                        values |-> [k \in 1..Len(df_filtered.index) |->
                                       Cell(df, df_filtered.index[k], old_col)]])
                /\ UNCHANGED printed
           ELSE /\ printed' = Append(printed, Msg("note_skipped", old_col, new_col_name))
                /\ UNCHANGED out_data
    /\ remap_i' = remap_i + 1
    /\ UNCHANGED <<servervars, df, df_filtered, out_df, output, npc>>

\* the output table of the columns collected, log_date first
BuildFrame ==
    /\ npc = "remap"
    /\ remap_i > Len(header_to_field)
    /\ out_df' = Reorder(DataFrame(out_data, Len(df_filtered.index)))
    /\ npc' = "write"
    /\ UNCHANGED <<servervars, df, df_filtered, out_data, remap_i, output, printed>>

\* the output file and the closing message
Write ==
    /\ npc = "write"
    /\ output' = [written |-> TRUE, columns |-> out_df.columns, rows |-> out_df.rows]
    /\ printed' = Append(printed,
           IF IsEmpty(out_df) /\ ~DayColumnPresent(df)
           THEN Msg("wrote_empty_no_day_column", "", "")
           ELSE IF IsEmpty(out_df)
           THEN Msg("wrote_empty_no_rows_matched", "", "")
           ELSE Msg("wrote_rows", "", ""))
    /\ npc' = "end"
    /\ UNCHANGED <<servervars, df, df_filtered, out_data, remap_i, out_df>>

\* the output file cannot be written: a message, no output file
WriteError ==
    /\ npc = "write"
    /\ printed' = Append(printed, Msg("write_error", "", ""))
    /\ npc' = "end"
    /\ UNCHANGED <<servervars, df, df_filtered, out_data, remap_i, out_df, output>>

\* the script is started
InitNorm ==
    /\ ServerInit
    /\ df = NoTable
    /\ df_filtered = NoRows
    /\ out_data = <<>>
    /\ remap_i = 0
    /\ out_df = EmptyFrame
    /\ output = NoFile
    /\ printed = <<>>
    /\ npc = "start"

NextNorm ==
    \/ ReadCsv
    \/ ReadError
    \/ DayColumnMissing
    \/ Filter
    \/ ExtractDay
    \/ Remap
    \/ BuildFrame
    \/ Write
    \/ WriteError

SpecNorm == InitNorm /\ [][NextNorm]_vars

\* ------------------------------------------------------- derived notions
Done(r) == pc[r] = "done"
\* the call's metric statement has run
Applied(r) == op[r] \in LogOps /\ (pc[r] = "release" \/ resp[r] = "200")
\* the call has returned success=true
Succeeded(r) == op[r] \in LogOps /\ resp[r] = "200"

RECURSIVE SumVal(_)
SumVal(rs) ==
    IF rs = {} THEN 0
    ELSE LET r == CHOOSE x \in rs : TRUE IN val[r] + SumVal(rs \ {r})

\* ------------------------------------------------------------------ C1
\* C1: in every reachable state the store holds at most one Daily Log per
\* (user_id, log_date), and all calls whose upsert ran for the same date hold
\* the same log_id, which is the id of that date's record.
C1_OneLogPerDate ==
    /\ \A i, j \in LogIds(daily_logs) :
          (/\ daily_logs[i].user_id = daily_logs[j].user_id
           /\ daily_logs[i].log_date = daily_logs[j].log_date) => i = j
    /\ \A r \in Requests :
          log_id[r] # NULL =>
             /\ log_id[r] \in LogIds(daily_logs)
             /\ daily_logs[log_id[r]].log_id = log_id[r]
             /\ daily_logs[log_id[r]].log_date = resolved[r]
    /\ \A r, q \in Requests :
          (log_id[r] # NULL /\ log_id[q] # NULL /\ resolved[r] = resolved[q])
             => log_id[r] = log_id[q]

C1_Witness ==
    \E r, q \in Requests :
       /\ r # q
       /\ op[r] # op[q]
       /\ date[r] = NULL /\ date[q] \in Dates
       /\ Succeeded(r) /\ Succeeded(q)
       /\ resolved[r] = resolved[q]
       /\ log_id[r] = log_id[q]
       /\ Len(daily_logs) = 1

\* ------------------------------------------------------------------ C2
\* C2: the step in which a logging call is rejected (success=false, 400)
\* leaves daily_logs and daily_calorie_entries as they were, and a rejected
\* call has sent no statement to the store.
C2_RejectWritesNothing ==
    [][\A r \in Requests :
          (resp[r] = "none" /\ resp'[r] = "400") =>
              /\ pc[r] = "idle"
              /\ log_id'[r] = NULL
              /\ daily_logs' = daily_logs
              /\ daily_calorie_entries' = daily_calorie_entries]_vars

C2_Witness ==
    \E r \in Requests :
       /\ op[r] = "weight" /\ val[r] = -1 /\ resp[r] = "400"
       /\ RowsFor(daily_logs, today) = {}
       /\ \E q \in Requests : Succeeded(q)

\* ------------------------------------------------------------------ C3
\* C3: a logging call that ends in a storage failure leaves no mutation
\* behind: when it is the only call that ever ran, the store is still as it
\* was before the call (empty), with no Daily Log holding only its log_date.
C3_FailureLeavesNoMutation ==
    \A r \in Requests :
       (/\ op[r] \in LogOps
        /\ resp[r] = "500"
        /\ \A q \in Requests \ {r} : pc[q] = "idle")
          => (daily_logs = <<>> /\ daily_calorie_entries = <<>>)

\* ------------------------------------------------------------------ C4
\* C4: once no Log Cardio call is in flight, for every date the
\* total_activity_min of the date's Daily Log (unset, or no record, counting
\* as 0) is the sum of duration_min over the Log Cardio calls for that date
\* that returned success.
ActivityOf(d) ==
    IF RowsFor(daily_logs, d) = {} THEN 0
    ELSE LET i == CHOOSE x \in RowsFor(daily_logs, d) : TRUE
         IN  COALESCE(daily_logs[i].total_activity_min, 0)

CardioCalls(d) ==
    {r \in Requests : op[r] = "cardio" /\ resp[r] = "200" /\ resolved[r] = d}

C4_CardioAccumulates ==
    (\A r \in Requests : op[r] = "cardio" => Done(r)) =>
        \A d \in Dates : ActivityOf(d) = SumVal(CardioCalls(d))

C4_Witness ==
    \E r, q \in Requests :
       /\ r # q
       /\ r \in CardioCalls(today) /\ q \in CardioCalls(today)
       /\ val[r] > 0 /\ val[q] > 0
       /\ ActivityOf(today) = val[r] + val[q]

\* ------------------------------------------------------------------ C5
MetricField(row, o) == IF o = "weight" THEN row.weight_kg ELSE row.mood

\* r's metric statement runs in this step
MetricStep(r) == pc[r] = "metric" /\ pc'[r] = "release"
\* r's upsert statement runs in this step
UpsertStep(r) == pc[r] = "upsert" /\ pc'[r] = "metric"

\* C5 as stated: when a Log Weight (Log Mood) call returns success and every
\* other call is idle or has completed, so that it is the call that
\* completed last, its date has exactly one Daily Log and that record's
\* weight_kg (mood) is the value the call supplied.
C5_LastCompletedWins ==
    [][\A r \in Requests :
          (/\ op[r] \in {"weight", "mood"}
           /\ pc[r] = "release" /\ pc'[r] = "done"
           /\ \A q \in Requests \ {r} : pc[q] \in {"idle", "done"})
             => /\ Cardinality(RowsFor(daily_logs', resolved[r])) = 1
                /\ MetricField(daily_logs'[log_id[r]], op[r]) = val[r]]_vars

\* C5 amended: weight_kg and mood are last-write-wins in the order of the
\* UPDATE statements: the UPDATE of a Log Weight (Log Mood) call sets the
\* field of the one Daily Log of its date to the call's value, and no other
\* step changes the field of any Daily Log.
C5_LastWriteWins ==
    [][/\ \A r \in Requests :
             (MetricStep(r) /\ op[r] \in {"weight", "mood"}) =>
                 /\ RowsFor(daily_logs', resolved[r]) = {log_id[r]}
                 /\ MetricField(daily_logs'[log_id[r]], op[r]) = val[r]
       /\ \A i \in LogIds(daily_logs) : \A o \in {"weight", "mood"} :
             MetricField(daily_logs'[i], o) # MetricField(daily_logs[i], o) =>
                 \E r \in Requests :
                    MetricStep(r) /\ op[r] = o /\ log_id[r] = i]_vars

\* two Log Weight calls for one date have both succeeded with different values
C5_Witness ==
    \E r, q \in Requests :
       /\ op[r] = "weight" /\ op[q] = "weight"
       /\ Succeeded(r) /\ Succeeded(q)
       /\ log_id[r] = log_id[q]
       /\ val[r] # val[q]
       /\ daily_logs[log_id[r]].weight_kg = val[q]

\* ------------------------------------------------------------------ C6
EntriesOf(i, v) ==
    {k \in 1..Len(daily_calorie_entries) :
        daily_calorie_entries[k].log_id = i /\ daily_calorie_entries[k].calories = v}

CalorieCalls(i, v) ==
    {r \in Requests : op[r] = "calorie" /\ Applied(r) /\ log_id[r] = i /\ val[r] = v}

\* C6: the Calorie Entries are exactly one entry per Log Calorie call whose
\* INSERT has run, each with the call's calories and the log_id of the Daily
\* Log of the call's date; entry ids are distinct; a step adds at most one
\* entry and leaves the existing entries as they were.
C6_CalorieAppend ==
    /\ \A i \in LogIds(daily_logs) : \A v \in Numbers :
          Cardinality(EntriesOf(i, v)) = Cardinality(CalorieCalls(i, v))
    /\ \A k \in 1..Len(daily_calorie_entries) :
          /\ daily_calorie_entries[k].log_id \in LogIds(daily_logs)
          /\ daily_calorie_entries[k].calories >= 0
          /\ \A m \in 1..Len(daily_calorie_entries) :
                daily_calorie_entries[k].entry_id = daily_calorie_entries[m].entry_id
                   => k = m
    /\ Len(daily_calorie_entries) =
          Cardinality({r \in Requests : op[r] = "calorie" /\ Applied(r)})

C6_Witness ==
    \E r, q \in Requests :
       /\ r # q
       /\ op[r] = "calorie" /\ op[q] = "calorie"
       /\ Succeeded(r) /\ Succeeded(q)
       /\ log_id[r] = log_id[q]
       /\ Len(daily_calorie_entries) = 2

\* ------------------------------------------------------------------ C7
\* sum of calories over the entries whose parent Daily Log is dated d
RECURSIVE TotalOfParents(_, _)
TotalOfParents(k, d) ==
    IF k = 0 THEN 0
    ELSE LET e == daily_calorie_entries[k]
             mine == \E i \in LogIds(daily_logs) :
                        daily_logs[i].log_id = e.log_id /\ daily_logs[i].log_date = d
         IN  TotalOfParents(k - 1, d) + (IF mine THEN e.calories ELSE 0)

\* C7: the Today's calorie total query computes, as total_calories, the sum
\* of calories over the entries whose parent Daily Log is dated today (0 when
\* there are none), and returns a result carrying that total.
C7_TodaysTotalReturned ==
    [][\A r \in Requests :
          /\ (pc[r] = "query" /\ pc'[r] = "released") =>
                result'[r].total_calories =
                    TotalOfParents(Len(daily_calorie_entries), today)
          /\ (pc[r] = "released" /\ pc'[r] = "done") =>
                /\ resp'[r] = "200"
                /\ result'[r].total_calories = result[r].total_calories]_vars

\* ------------------------------------------------------------------ C8
\* C8: for each of the four logging operations, the upsert runs for the
\* explicit date when one is supplied and for the current date otherwise and
\* returns the id of the one Daily Log of that date; the metric statement of
\* the call then changes that record (or adds an entry under it) and no other
\* record or entry, whatever has happened in between.
C8_DateResolution ==
    [][\A r \in Requests :
          /\ UpsertStep(r) =>
                LET d == IF date[r] \in Dates THEN date[r] ELSE today
                IN  /\ RowsFor(daily_logs', d) = {log_id'[r]}
                    /\ resolved'[r] = d
          /\ MetricStep(r) =>
                /\ Len(daily_logs') = Len(daily_logs)
                /\ \A i \in LogIds(daily_logs) :
                      i # log_id[r] => daily_logs'[i] = daily_logs[i]
                /\ daily_logs'[log_id[r]].log_date = resolved[r]
                /\ CASE op[r] = "weight" ->
                           daily_logs'[log_id[r]].weight_kg = val[r]
                     [] op[r] = "mood" ->
                           daily_logs'[log_id[r]].mood = val[r]
                     [] op[r] = "cardio" ->
                           daily_logs'[log_id[r]].total_activity_min =
                              COALESCE(daily_logs[log_id[r]].total_activity_min, 0)
                                 + val[r]
                     [] op[r] = "calorie" ->
                           /\ Len(daily_calorie_entries') =
                                 Len(daily_calorie_entries) + 1
                           /\ daily_calorie_entries'[Len(daily_calorie_entries')].log_id
                                 = log_id[r]
                           /\ SubSeq(daily_calorie_entries', 1,
                                     Len(daily_calorie_entries))
                                 = daily_calorie_entries]_vars

\* a call without a date has written to the record of the day its upsert ran,
\* after the current date moved on and another record for the new day exists
C8_Witness ==
    \E r \in Requests :
       /\ op[r] = "mood" /\ date[r] = NULL
       /\ Applied(r)
       /\ resolved[r] < today
       /\ daily_logs[log_id[r]].mood = val[r]
       /\ \E i \in RowsFor(daily_logs, today) : daily_logs[i].mood = NULL

\* ------------------------------------------------------------------ C9
\* the constraint of each logging operation on its payload
Constraint(o, v) ==
    /\ v # NULL
    /\ o = "weight" => v > 0
    /\ o = "calorie" => v >= 0
    /\ o = "cardio" => v >= 0

\* C9: a logging call gets past validation exactly when its payload meets the
\* operation's constraint; a call that does not is answered 400
\* (success=false), a call that does is answered 200 (success=true) unless a
\* storage failure ended it.
C9_AcceptedIffValid ==
    \A r \in Requests :
       op[r] \in LogOps =>
          /\ (resp[r] = "400") <=> (Done(r) /\ ~Constraint(op[r], val[r]))
          /\ pc[r] \in {"upsert", "metric", "release"} => Constraint(op[r], val[r])
          /\ (Done(r) /\ Constraint(op[r], val[r])) =>
                \/ resp[r] = "200"
                \/ resp[r] = "500" /\ ~Applied(r)

C9_Witness ==
    \E r, q \in Requests :
       /\ op[r] = "weight" /\ val[r] = 0 /\ resp[r] = "400"
       /\ op[q] = "calorie" /\ val[q] = 0 /\ resp[q] = "200"

\* ----------------------------------------------------------------- C10
\* C10: a Daily Log once present stays present with the same log_id and
\* log_date; a Daily Log appears only in the upsert step of a logging call,
\* and then has its log_date set, weight_kg, mood and total_activity_min
\* unset, and no Calorie Entries.
C10_AbsentToPresent ==
    [][/\ \A i \in LogIds(daily_logs) :
             /\ i \in LogIds(daily_logs')
             /\ daily_logs'[i].log_id = daily_logs[i].log_id
             /\ daily_logs'[i].user_id = daily_logs[i].user_id
             /\ daily_logs'[i].log_date = daily_logs[i].log_date
       /\ \A i \in LogIds(daily_logs') \ LogIds(daily_logs) :
             /\ \E r \in Requests : UpsertStep(r) /\ log_id'[r] = i
             /\ daily_logs'[i].log_date \in Dates
             /\ daily_logs'[i].weight_kg = NULL
             /\ daily_logs'[i].mood = NULL
             /\ daily_logs'[i].total_activity_min = NULL
             /\ \A k \in 1..Len(daily_calorie_entries') :
                   daily_calorie_entries'[k].log_id # i]_vars

\* a record created by one call is still there, filled by a later call
C10_Witness ==
    \E r, q \in Requests :
       /\ r # q
       /\ Succeeded(r) /\ Succeeded(q)
       /\ log_id[r] = log_id[q]
       /\ op[r] = "weight" /\ op[q] = "cardio"
       /\ daily_logs[log_id[r]].weight_kg = val[r]
       /\ daily_logs[log_id[r]].total_activity_min = val[q]

\* ----------------------------------------------------------------- C11
\* C11: in every step, the total_activity_min of every Daily Log (unset
\* counting as 0) is at least what it was before the step.
C11_ActivityMonotone ==
    [][\A i \in LogIds(daily_logs) :
          /\ i \in LogIds(daily_logs')
          /\ COALESCE(daily_logs'[i].total_activity_min, 0)
                >= COALESCE(daily_logs[i].total_activity_min, 0)]_vars

\* a total that grew and was then left as it was by a Log Cardio of 0 minutes
C11_Witness ==
    \E r, q \in Requests :
       /\ op[r] = "cardio" /\ op[q] = "cardio"
       /\ Applied(r) /\ Applied(q)
       /\ log_id[r] = log_id[q]
       /\ val[r] > 0 /\ val[q] = 0
       /\ daily_logs[log_id[r]].total_activity_min = val[r]

\* ----------------------------------------------------------------- C12
\* the row with every column but the named metric's blanked out
Others(row, o) ==
    CASE o = "weight" -> [row EXCEPT !.weight_kg = NULL]
      [] o = "mood"   -> [row EXCEPT !.mood = NULL]
      [] o = "cardio" -> [row EXCEPT !.total_activity_min = NULL]
      [] o = "calorie" -> row

\* C12: the metric statement of a logging call changes, in the Daily Log of
\* its date, only its own metric (Log Calorie: no column, it only appends an
\* entry), and leaves every other Daily Log and every existing Calorie Entry
\* as it was; the upsert statement leaves every existing Daily Log and every
\* Calorie Entry as it was.
C12_MetricsIndependent ==
    [][\A r \in Requests :
          /\ MetricStep(r) =>
                /\ \A i \in LogIds(daily_logs) :
                      /\ i # log_id[r] => daily_logs'[i] = daily_logs[i]
                      /\ i = log_id[r] =>
                            Others(daily_logs'[i], op[r]) = Others(daily_logs[i], op[r])
                /\ op[r] # "calorie" => daily_calorie_entries' = daily_calorie_entries
                /\ op[r] = "calorie" =>
                      \A k \in 1..Len(daily_calorie_entries) :
                         daily_calorie_entries'[k] = daily_calorie_entries[k]
          /\ UpsertStep(r) =>
                /\ \A i \in LogIds(daily_logs) : daily_logs'[i] = daily_logs[i]
                /\ daily_calorie_entries' = daily_calorie_entries]_vars

\* a record matched again by a second call still carries the first call's metric
C12_Witness ==
    \E r, q \in Requests :
       /\ op[r] = "weight" /\ op[q] = "mood"
       /\ Succeeded(r) /\ Succeeded(q)
       /\ log_id[r] = log_id[q]
       /\ daily_logs[log_id[r]].weight_kg = val[r]
       /\ daily_logs[log_id[r]].mood = val[q]
       /\ daily_logs[log_id[r]].total_activity_min = NULL


\* the step at which a trend query answers
BmiStep(r) == pc[r] = "query" /\ op[r] = "bmi" /\ resp'[r] = "200"

\* the weight the store holds for a date, NULL when it holds none
WeightOn(dl, d) ==
    IF \E i \in LogIds(dl) : dl[i].log_date = d /\ dl[i].weight_kg # NULL
    THEN dl[CHOOSE i \in LogIds(dl) : dl[i].log_date = d /\ dl[i].weight_kg # NULL].weight_kg
    ELSE NULL

\* C13: the trend query answers with exactly 30 entries, the k-th one for
\* the day today - 29 + (k - 1), so one per calendar day from 29 days ago
\* through today in strictly ascending order, whatever the store holds; an
\* entry's value is that day's datum, and null when the day has none
C13_TrendWindow ==
    [][\A r \in Requests : BmiStep(r) =>
          /\ Len(result'[r]) = 30
          /\ \A k \in 1..30 :
                /\ result'[r][k].date = today - 29 + (k - 1)
                /\ result'[r][k].bmi = WeightOn(daily_logs, result'[r][k].date)
          /\ \A k \in 1..29 : result'[r][k].date < result'[r][k + 1].date]_vars

\* a trend answered from a store that has data for one day of the window and
\* none for another
C13_Witness ==
    \E r \in Requests :
        /\ op[r] = "bmi"
        /\ resp[r] = "200"
        /\ Len(result[r]) = 30
        /\ result[r][30].bmi # NULL
        /\ result[r][29].bmi = NULL
        /\ result[r][1].bmi = NULL


\* the step at which a daily summary answers, and the date it is asked about
SummaryStep(r) == pc[r] = "query" /\ op[r] = "summary_daily" /\ resp'[r] = "200"
QueriedDate(r) == ResolveDate(date[r])
LogExists(d) == RowsFor(daily_logs, d) # {}

\* C14: a daily summary asked about a date with no Daily Log (the given
\* date, or today when none is given) answers without error with the
\* queried date and no metric field, and creates no record
C14_EmptySummaryEchoesDate ==
    [][\A r \in Requests : (SummaryStep(r) /\ ~LogExists(QueriedDate(r))) =>
          /\ DOMAIN result'[r] = {"log_date"}
          /\ result'[r].log_date = QueriedDate(r)
          /\ daily_logs' = daily_logs
          /\ daily_calorie_entries' = daily_calorie_entries]_vars

\* C20: a daily summary asked about a date that has a Daily Log answers
\* with that date as its log_date, given explicitly or defaulted to today
C20_SummaryNamesDate ==
    [][\A r \in Requests : (SummaryStep(r) /\ LogExists(QueriedDate(r))) =>
          result'[r].log_date = QueriedDate(r)]_vars


\* the positions at which a handler's next step sends a statement to the
\* store ("released" is the SELECT CURRENT_DATE of the calories total)
StatementPcs == {"upsert", "metric", "query", "query2", "released"}
SendsStatement(r) == pc[r] \in StatementPcs /\ pc'[r] # pc[r]

\* C19: every statement a handler sends goes over a connection the handler
\* holds at that moment: acquired and not yet released
C19_StatementsOnHeldConnection ==
    [][\A r \in Requests : SendsStatement(r) => conn[r] = "held"]_vars


\* ------------------------------------------------------------------ C15
\* what "the label matches 'Day N'" says, without the scan: the places
\* <<p, e, f>> where "day" in any case stands at p, whitespace fills p+3..e-1
\* and e..f-1 is a run of digits that ends at f
MatchPlaces(s) ==
    {m \in (1..Len(s)) \X (1..Len(s)) \X (1..(Len(s) + 1)) :
        /\ m[1] + 3 < m[2] /\ m[2] < m[3]
        /\ s[m[1]] \in {"D", "d"} /\ s[m[1] + 1] \in {"A", "a"} /\ s[m[1] + 2] \in {"Y", "y"}
        /\ \A k \in (m[1] + 3)..(m[2] - 1) : s[k] \in {" ", "\t"}
        /\ \A k \in m[2]..(m[3] - 1) : IsDigit(s[k])
        /\ (m[3] <= Len(s) => ~IsDigit(s[m[3]]))}

RECURSIVE Pow10(_)
Pow10(n) == IF n = 0 THEN 1 ELSE 10 * Pow10(n - 1)
RECURSIVE DecimalValue(_, _, _)
DecimalValue(s, e, f) ==
    IF e >= f THEN 0
    ELSE DigitVal(s[e]) * Pow10(f - 1 - e) + DecimalValue(s, e + 1, f)

\* the N of each label, of its leftmost match; NULL when it does not match
DayIndex ==
    [s \in Labels |->
        IF MatchPlaces(s) = {} THEN NULL
        ELSE LET m == CHOOSE x \in MatchPlaces(s) :
                          \A y \in MatchPlaces(s) : x[1] <= y[1]
             IN  DecimalValue(s, m[2], m[3])]

\* the number of a calendar date in the proleptic Gregorian count of days
Ordinal(d) ==
    LET y == IF d[2] <= 2 THEN d[1] - 1 ELSE d[1]
        era == y \div 400
        yoe == y - era * 400
        mp == (d[2] + 9) % 12
        doy == (153 * mp + 2) \div 5 + d[3] - 1
        doe == yoe * 365 + yoe \div 4 - yoe \div 100 + doy
    IN  era * 146097 + doe
IsDate(d) == d[2] \in 1..12 /\ d[3] \in 1..DaysInMonth(d[1], d[2])

\* C15: a row whose Day label matches 'Day N' with N >= 1 has a record whose
\* log_date is the date N - 1 days after 2025-04-08
C15_LogDateFromDayIndex ==
    (npc \in {"write", "end"} /\ "Day" \in df.columns) =>
        \A i \in 1..df.nrows :
            (DayIndex[df.Day[i]] # NULL /\ DayIndex[df.Day[i]] >= 1) =>
                \E k \in 1..Len(out_df.rows) :
                    /\ df_filtered.index[k] = i
                    /\ out_df.columns[1] = "log_date"
                    /\ IsDate(out_df.rows[k][1])
                    /\ Ordinal(out_df.rows[k][1]) - Ordinal(<<2025, 4, 8>>)
                          = DayIndex[df.Day[i]] - 1

\* Day 1 written as the epoch date itself, Day 1058 as 29 February 2028 and
\* Day 24 as 1 May 2025
C15_Witness ==
    /\ npc = "end"
    /\ output.written
    /\ Len(output.rows) = 3
    /\ df.Day = <<LabelHoliday, LabelUpperTab01, LabelLower24>>
    /\ output.rows[1][1] = <<2028, 2, 29>>
    /\ output.rows[2][1] = <<2025, 4, 8>>
    /\ output.rows[3][1] = <<2025, 5, 1>>


\* ------------------------------------------------------------------ C16
Printed(kind) == \E k \in 1..Len(printed) : printed[k].kind = kind
\* main() has read a table and is past its processing
Processed == npc \in {"write", "end"} /\ df # NoTable
MatchingRows == {i \in 1..df.nrows : "Day" \in df.columns /\ DayIndex[df.Day[i]] # NULL}

\* C16: a table without the Day column gives an empty output and the
\* structural error; a table with the Day column and no matching row gives
\* an empty output and the warning, not the error; a table with a matching
\* row gives neither message; a file that is written holds that output
C16_EmptyOutcomesDistinct ==
    Processed =>
        /\ "Day" \notin df.columns =>
              /\ IsEmpty(out_df)
              /\ Printed("error_no_day_column")
              /\ ~Printed("warning_no_rows_matched")
        /\ ("Day" \in df.columns /\ MatchingRows = {}) =>
              /\ IsEmpty(out_df)
              /\ Printed("warning_no_rows_matched")
              /\ ~Printed("error_no_day_column")
        /\ MatchingRows # {} =>
              /\ ~Printed("error_no_day_column")
              /\ ~Printed("warning_no_rows_matched")
              /\ ~IsEmpty(out_df)
        /\ output.written =>
              /\ output.rows = out_df.rows
              /\ output.columns = out_df.columns
              /\ Printed("wrote_empty_no_day_column") <=> "Day" \notin df.columns

\* a table that has the Day column and three rows, none of which matches:
\* the warning and an empty file
C16_Witness ==
    /\ npc = "end"
    /\ "Day" \in df.columns
    /\ df.nrows = 3
    /\ LabelNoSpace \in {df.Day[i] : i \in 1..3}
    /\ output.written
    /\ output.rows = <<>>
    /\ Printed("warning_no_rows_matched")
    /\ ~Printed("error_no_day_column")


\* ------------------------------------------------------------------ C17
\* the k-th of a set of rows, in the table's order
Kth(rows, k) == CHOOSE i \in rows : Cardinality({j \in rows : j < i}) = k - 1

\* C17: the output has as many records as the table has rows with a
\* matching Day label; its k-th record is made from the k-th such row of the
\* table (its date from that row's label, its values from that row's cells),
\* whatever the dates are and whether or not they repeat
C17_OneRecordPerMatchingRow ==
    Processed =>
        /\ Len(out_df.rows) = Cardinality(MatchingRows)
        /\ \A k \in 1..Len(out_df.rows) :
              LET i == Kth(MatchingRows, k)
              IN  /\ Ordinal(out_df.rows[k][1]) - Ordinal(<<2025, 4, 8>>)
                        = DayIndex[df.Day[i]] - 1
                  /\ \A c \in 2..Len(out_df.columns) : out_df.rows[k][c][1] = i
        /\ output.written => output.rows = out_df.rows

\* Day 24, Day 1 and Day 01 in this order give three records in this order:
\* not sorted by date, and two of them for the same date
C17_Witness ==
    /\ npc = "end"
    /\ output.written
    /\ df.Day = <<LabelLower24, LabelDay1, LabelUpperTab01>>
    /\ Len(output.rows) = 3
    /\ Len(output.columns) = 2
    /\ output.rows[1] = << <<2025, 5, 1>>, <<1, "Notes">> >>
    /\ output.rows[2] = << <<2025, 4, 8>>, <<2, "Notes">> >>
    /\ output.rows[3] = << <<2025, 4, 8>>, <<3, "Notes">> >>


\* ------------------------------------------------------------------ C18
\* the canonical fields in the order of the record, each with its source
CanonicalFields ==
    << [field |-> "weight_kg_txt", source |-> "Weight"],
       [field |-> "kcal_budgeted_txt", source |-> "Budgeted kcal"],
       [field |-> "kcal_estimated_txt", source |-> "Estimated kcal"],
       [field |-> "exercise_txt", source |-> "Exercise"],
       [field |-> "fasted_cardio_txt", source |-> "Fasted Cardio"],
       [field |-> "mood_txt", source |-> "Mood/Energy"],
       [field |-> "notes", source |-> "Notes"] >>
FieldsPresent == SelectSeq(CanonicalFields, LAMBDA x : x.source \in df.columns)
NotesFor(x) ==
    {j \in 1..Len(printed) : printed[j].kind = "note_skipped" /\ printed[j].col = x.source}

\* C18: where records are made (a row matches), the output's fields are
\* log_date and then the canonical fields whose source column the table has,
\* in the order of the mapping; each value is the cell of its row and source
\* column; a mapped column the table lacks has exactly one skip note, which
\* names its canonical field, and a column the table has has none
C18_RemapFieldsAndNotes ==
    (Processed /\ MatchingRows # {}) =>
        /\ out_df.columns =
              <<"log_date">> \o [c \in 1..Len(FieldsPresent) |-> FieldsPresent[c].field]
        /\ \A k \in 1..Len(out_df.rows) : \A c \in 1..Len(FieldsPresent) :
              out_df.rows[k][c + 1] = <<Kth(MatchingRows, k), FieldsPresent[c].source>>
        /\ \A c \in 1..Len(CanonicalFields) :
              LET x == CanonicalFields[c]
              IN  /\ Cardinality(NotesFor(x)) = IF x.source \in df.columns THEN 0 ELSE 1
                  /\ \A j \in NotesFor(x) : printed[j].field = x.field
        /\ output.written => output.columns = out_df.columns

\* a table with the columns Day, Weight and Notes: the record has log_date,
\* weight_kg_txt and notes, and the five other columns have a note each
C18_Witness ==
    /\ npc = "end"
    /\ output.written
    /\ df.columns = {"Day", "Weight", "Notes"}
    /\ df.Day = <<LabelDay1>>
    /\ output.columns = <<"log_date", "weight_kg_txt", "notes">>
    /\ output.rows = << << <<2025, 4, 8>>, <<1, "Weight">>, <<1, "Notes">> >> >>
    /\ Cardinality({j \in 1..Len(printed) : printed[j].kind = "note_skipped"}) = 5

====
